---- MODULE Spec2Model ----
(***************************************************************************)
(* A model of fa's display engine (src/src/main.rs, search_and_display):   *)
(* the partition of the terminal rows into display spaces, the per-space   *)
(* Finding/Printing state, the truncation of input lines, the history      *)
(* buffer replayed on activation and the terminal writes.                  *)
(*                                                                         *)
(* Text is a sequence of one-character strings; "\n" is the terminator.    *)
(***************************************************************************)
EXTENDS Integers, Sequences, FiniteSets, TLC

VARIABLES
    pc,                         \* position of search_and_display
    opt,                        \* Options
    term_size,                  \* (rows, cols) as term.size() returned them
    source,                     \* "stdin" or "file": what main hands over as input
    input,                      \* the lines of the input file ("file" only)
    pos,                        \* number of lines read so far
    last_read,                  \* outcome of the latest read_line
    history,                    \* VecDeque<String>
    display_spaces,             \* Vec<Space>
    lines_printed_this_space,   \* the one counter of rows printed
    changed_space,              \* per-line flag
    l,                          \* the raw line of this iteration
    print_string,               \* the rendered line of this iteration
    idx,                        \* position of the for loop over display_spaces
    cursor,                     \* terminal cursor row
    writes                      \* what the current step sequence wrote to the terminal

vars == <<pc, opt, term_size, source, input, pos, last_read, history,
          display_spaces, lines_printed_this_space, changed_space, l,
          print_string, idx, cursor, writes>>

----------------------------------------------------------------------------
(* Bounds of the model *)

MaxTermRows == 8
MaxSpaces == 2
MaxHistory == 2
MaxInput == 3
MaxFile == 4
MaxLen == 4
MaxCols == 5
MaxPartRows == 14
MaxPartSpaces == 6

(* Program constants *)

RowsReserved == 2
HeaderDashes == 3

----------------------------------------------------------------------------
(* Text helpers *)

NL == "\n"

Min(a, b) == IF a < b THEN a ELSE b

Take(s, n) == SubSeq(s, 1, Min(n, Len(s)))

Terminated(s) == Len(s) > 0 /\ s[Len(s)] = NL

\* number of characters of s, a final terminator excluded
Visible(s) == IF Terminated(s) THEN Len(s) - 1 ELSE Len(s)

Dashes(n) == [k \in 1..n |-> "-"]

\* the last n elements of s (all of s when it is shorter)
LastN(s, n) == SubSeq(s, Len(s) - Min(n, Len(s)) + 1, Len(s))

MATCH == <<"M", "A", "T", "C", "H">>

Alphabet == <<"a", "b", "c", "d", "e", "f", "g", "h", "i", "j">>

\* the i-th configured regular expression: a literal
Pattern(i) == IF i = 1 THEN MATCH ELSE <<Alphabet[i]>>

Regexes(n) == [i \in 1..n |-> Pattern(i)]

----------------------------------------------------------------------------
(* Pure parts of search_and_display *)

\* Regex::is_match for a literal pattern: the pattern occurs somewhere in the line
is_match(regex, line) ==
    \E k \in 0..(Len(line) - Len(regex)) :
        SubSeq(line, k + 1, k + Len(regex)) = regex

\* lines 200-204 with > for >=
render_gt(line, cols) ==
    IF Len(line) > cols
    THEN Take(line, cols - 1) \o <<NL>>
    ELSE line

\* lines 200-204 with the comparison reversed
render_le(line, cols) ==
    IF Len(line) <= cols
    THEN Take(line, cols - 1) \o <<NL>>
    ELSE line

\* lines 200-204: the count includes the terminator read_line keeps
render(line, cols) ==
    IF Len(line) >= cols
    THEN Take(line, cols - 1) \o <<NL>>
    ELSE line

\* line 164 rounding up
lines_per_space_ceil(rows_to_use, n) == (rows_to_use + n - 1) \div n

\* line 164
lines_per_space(rows_to_use, n) == rows_to_use \div n

\* lines 165, 179 with the increment one row too far
space_start_gap(rows_to_use, n, i) == (i - 1) * (lines_per_space(rows_to_use, n) + 1)

\* lines 165, 173, 179: next_line when the i-th space is created
space_start(rows_to_use, n, i) == (i - 1) * lines_per_space(rows_to_use, n)

\* line 167
space_rows(rows_to_use, n, i) ==
    Min(lines_per_space(rows_to_use, n), rows_to_use - space_start(rows_to_use, n, i))

\* lines 168-170
full_header(regex, cols) ==
    Take(Dashes(HeaderDashes) \o <<"[", " ">> \o regex \o <<" ", "]">> \o Dashes(cols),
         cols - 1) \o <<NL>>

\* lines 163-180
partition(regexes, rows_to_use, cols) ==
    [i \in 1..Len(regexes) |->
        [start  |-> space_start(rows_to_use, Len(regexes), i),
         rows   |-> space_rows(rows_to_use, Len(regexes), i),
         regex  |-> regexes[i],
         state  |-> "Finding",
         header |-> full_header(regexes[i], cols)]]

\* lines 155-160 left out: the buffer starts empty
initial_history_empty(history_lines) == <<>>

\* lines 155-160
initial_history(history_lines) == [k \in 1..history_lines |-> <<NL>>]

\* lines 249-254 evicting from the wrong end
push_history_back(h, s, history_lines) ==
    IF history_lines > 0
    THEN Take(Append(h, s), history_lines)
    ELSE h

\* lines 249-254 keeping one line too many
push_history_extra(h, s, history_lines) ==
    LastN(Append(h, s), history_lines + 1)

\* lines 249-254 pushing the line twice
push_history_twice(h, s, history_lines) ==
    IF history_lines > 0
    THEN LastN(Append(Append(h, s), s), history_lines)
    ELSE h

\* lines 249-254
push_history(h, s, history_lines) ==
    IF history_lines > 0
    THEN LastN(Append(h, s), history_lines)
    ELSE h

\* line 213 without the restart_on_find disjunct
eligible_finding_only(state, restart_on_find) == state = "Finding"

\* line 213, first conjunct
eligible(state, restart_on_find) == state = "Finding" \/ restart_on_find

\* line 238 with > for >=
region_full_gt(printed, rows) == printed > rows

\* line 238
region_full(printed, rows) == printed >= rows

----------------------------------------------------------------------------
(* The terminal: t = [cursor, writes] *)

\* term.move_cursor_to(0, y)
move_cursor_to(t, y) == [t EXCEPT !.cursor = y]

\* term.write(text) at the cursor, after term.clear_line() when cleared; a
\* terminator moves the cursor one row down, the last row of the terminal scrolls
term_write(t, sp, kind, text, cleared) ==
    [cursor |-> IF Terminated(text)
                THEN Min(t.cursor + 1, term_size.rows - 1)
                ELSE t.cursor,
     writes |-> Append(t.writes,
                       [space |-> sp, kind |-> kind, row |-> t.cursor,
                        text |-> text, cleared |-> cleared])]

\* lines 216-221
clear_region(t, sp, s) ==
    [cursor |-> IF s.rows > 0 THEN s.start + s.rows - 1 ELSE t.cursor,
     writes |-> t.writes \o
                [k \in 1..s.rows |->
                    [space |-> sp, kind |-> "clear", row |-> s.start + k - 1,
                     text |-> <<>>, cleared |-> TRUE]]]

\* lines 229-233 iterating from the newest line
RECURSIVE replay_newest_first(_, _, _)
replay_newest_first(t, sp, h) ==
    IF h = <<>>
    THEN t
    ELSE replay_newest_first(term_write(t, sp, "history", h[Len(h)], TRUE), sp,
                             SubSeq(h, 1, Len(h) - 1))

\* lines 229-233
RECURSIVE replay(_, _, _)
replay(t, sp, h) ==
    IF h = <<>>
    THEN t
    ELSE replay(term_write(t, sp, "history", Head(h), TRUE), sp, Tail(h))

\* lines 183-186
RECURSIVE draw_headers(_, _, _)
draw_headers(t, spaces, i) ==
    IF i > Len(spaces)
    THEN t
    ELSE draw_headers(
             term_write(move_cursor_to(t, spaces[i].start), i, "header",
                        spaces[i].header, FALSE),
             spaces, i + 1)

----------------------------------------------------------------------------
(* Initial states *)

Start(o, ts, src, f) ==
    /\ pc = "start"
    /\ opt = o
    /\ term_size = ts
    /\ source = src
    /\ input = f
    /\ pos = 0
    /\ last_read = "none"
    /\ history = <<>>
    /\ display_spaces = <<>>
    /\ lines_printed_this_space = 0
    /\ changed_space = FALSE
    /\ l = <<>>
    /\ print_string = <<>>
    /\ idx = 0
    /\ cursor = 0
    /\ writes = <<>>

\* the raw lines stdin supplies
Lines ==
    { <<"a", NL>>,
      MATCH \o <<NL>>,
      <<"b", NL>>,
      MATCH \o <<"b", NL>>,
      <<"c">> }

Cols == {3, 8}

Init ==
    \E rows \in (RowsReserved + 1)..MaxTermRows, cols \in Cols,
       n \in 1..MaxSpaces, h \in 0..MaxHistory, r \in BOOLEAN, c \in BOOLEAN :
        /\ n <= rows - RowsReserved
        /\ Start([restart_on_find |-> r, history_lines |-> h,
                  clear_on_restart |-> c, regexes |-> Regexes(n)],
                 [rows |-> rows, cols |-> cols], "stdin", <<>>)

----------------------------------------------------------------------------
(* Actions *)

\* lines 148-188
Startup ==
    /\ pc = "start"
    /\ LET rows_to_use == term_size.rows - RowsReserved
           spaces == partition(opt.regexes, rows_to_use, term_size.cols)
           t == draw_headers([cursor |-> 0, writes |-> <<>>], spaces, 1)
       IN /\ history' = initial_history(opt.history_lines)
          /\ display_spaces' = spaces
          /\ cursor' = t.cursor
          /\ writes' = t.writes
    /\ lines_printed_this_space' = 0
    /\ pc' = "read"
    /\ UNCHANGED <<opt, term_size, source, input, pos, last_read,
                   changed_space, l, print_string, idx>>

\* lines 191-204: read_line returned the line
GotLine(line) ==
    /\ l' = line
    /\ print_string' = render(line, term_size.cols)
    /\ changed_space' = FALSE
    /\ idx' = 1
    /\ pos' = pos + 1
    /\ last_read' = "ok"
    /\ writes' = <<>>
    /\ pc' = "spaces"
    /\ UNCHANGED <<opt, term_size, source, input, history, display_spaces,
                   lines_printed_this_space, cursor>>

\* lines 193-204, input is stdin
ReadStdin ==
    /\ pc = "read"
    /\ source = "stdin"
    /\ pos < MaxInput
    /\ \E line \in Lines : GotLine(line)

\* lines 193-204, input is a file
ReadFile ==
    /\ pc = "read"
    /\ source = "file"
    /\ pos < Len(input)
    /\ GotLine(input[pos + 1])

\* lines 195-197
ReadEOF ==
    /\ pc = "read"
    /\ source = "file" => pos = Len(input)
    /\ last_read' = "eof"
    /\ pc' = "done"
    /\ UNCHANGED <<opt, term_size, source, input, pos, history, display_spaces,
                   lines_printed_this_space, changed_space, l, print_string,
                   idx, cursor, writes>>

\* lines 257-259 leaving the loop as line 197 does
ReadErrorFatal ==
    /\ pc = "read"
    /\ last_read' = "err"
    /\ pc' = "done"
    /\ UNCHANGED <<opt, term_size, source, input, pos, history, display_spaces,
                   lines_printed_this_space, changed_space, l, print_string,
                   idx, cursor, writes>>

\* lines 257-259
ReadError ==
    /\ pc = "read"
    /\ last_read' = "err"
    /\ UNCHANGED <<pc, opt, term_size, source, input, pos, history, display_spaces,
                   lines_printed_this_space, changed_space, l, print_string,
                   idx, cursor, writes>>

force_finding_never(changed, state) == state

\* lines 209-211
force_finding(changed, state) == IF changed THEN "Finding" ELSE state

\* lines 205-246, one iteration of the for loop
VisitSpace ==
    /\ pc = "spaces"
    /\ LET s == display_spaces[idx]
           t0 == [cursor |-> cursor, writes |-> writes]
           \* lines 209-211
           forced == force_finding(changed_space, s.state)
           \* line 213
           activate == eligible(forced, opt.restart_on_find) /\ is_match(s.regex, l)
           \* lines 216-221
           t1 == IF opt.clear_on_restart THEN clear_region(t0, idx, s) ELSE t0
           \* lines 222, 226
           t2 == term_write(move_cursor_to(t1, s.start), idx, "header", s.header, FALSE)
           \* lines 229-233
           t3 == replay(t2, idx, history)
           tA == IF activate THEN t3 ELSE t0
           \* lines 225, 227, 232
           printedA == IF activate THEN 1 + Len(history) ELSE lines_printed_this_space
           \* line 223
           stateA == IF activate THEN "Printing" ELSE forced
           \* lines 236-245
           full == region_full(printedA, s.rows)
           prints == stateA = "Printing" /\ ~full
           stateB == IF stateA = "Printing" /\ full THEN "Finding" ELSE stateA
           tB == IF prints THEN term_write(tA, idx, "line", print_string, TRUE) ELSE tA
           printedB == IF prints THEN printedA + 1 ELSE printedA
       IN /\ display_spaces' = [display_spaces EXCEPT ![idx].state = stateB]
          /\ changed_space' = (changed_space \/ activate)
          /\ lines_printed_this_space' = printedB
          /\ cursor' = tB.cursor
          /\ writes' = tB.writes
    /\ IF idx < Len(display_spaces)
       THEN idx' = idx + 1 /\ pc' = "spaces"
       ELSE idx' = 0 /\ pc' = "history"
    /\ UNCHANGED <<opt, term_size, source, input, pos, last_read, history, l,
                   print_string>>

\* lines 248-254, then the end of the loop body drops l and changed_space
PushHistory ==
    /\ pc = "history"
    /\ history' = push_history(history, print_string, opt.history_lines)
    /\ l' = <<>>
    /\ print_string' = <<>>
    /\ changed_space' = FALSE
    /\ pc' = "read"
    /\ UNCHANGED <<opt, term_size, source, input, pos, last_read, display_spaces,
                   lines_printed_this_space, idx, cursor, writes>>

Next ==
    \/ Startup
    \/ ReadStdin
    \/ ReadEOF
    \/ ReadError
    \/ VisitSpace
    \/ PushHistory

Spec == Init /\ [][Next]_vars

----------------------------------------------------------------------------
(* The input is a file: its lines are fixed when the program starts *)

MaxFileTermRows == 5

\* the raw lines a file holds
FileLines ==
    { <<"a", NL>>,
      MATCH \o <<NL>>,
      <<"b", NL>>,
      <<"c", NL>> }

Files == UNION { [1..k -> FileLines] : k \in 0..MaxFile }

InitFile ==
    \E rows \in (RowsReserved + 2)..MaxFileTermRows, cols \in Cols,
       h \in 0..MaxHistory, r \in BOOLEAN, f \in Files :
        Start([restart_on_find |-> r, history_lines |-> h,
               clear_on_restart |-> FALSE, regexes |-> Regexes(1)],
              [rows |-> rows, cols |-> cols], "file", f)

NextFile ==
    \/ Startup
    \/ ReadFile
    \/ ReadEOF
    \/ ReadError
    \/ VisitSpace
    \/ PushHistory

SpecFile == InitFile /\ [][NextFile]_vars

----------------------------------------------------------------------------
(* The line renderer alone, lines 200-204, over every short line and width *)

Chars == {"a", "b"}

\* what read_line can return: characters, then possibly the terminator; never empty
RawLines ==
    LET body == UNION { [1..k -> Chars] : k \in 0..MaxLen }
    IN  { b \o <<NL>> : b \in body } \cup (body \ {<<>>})

NoOptions ==
    [restart_on_find |-> FALSE, history_lines |-> 0,
     clear_on_restart |-> FALSE, regexes |-> Regexes(1)]

InitRender ==
    \E line \in RawLines, cols \in 1..MaxCols :
        /\ pc = "render"
        /\ opt = NoOptions
        /\ term_size = [rows |-> RowsReserved + 1, cols |-> cols]
        /\ source = "stdin"
        /\ input = <<>>
        /\ pos = 0
        /\ last_read = "ok"
        /\ history = <<>>
        /\ display_spaces = <<>>
        /\ lines_printed_this_space = 0
        /\ changed_space = FALSE
        /\ l = line
        /\ print_string = <<>>
        /\ idx = 0
        /\ cursor = 0
        /\ writes = <<>>

\* lines 200-204
RenderLine ==
    /\ pc = "render"
    /\ print_string' = render(l, term_size.cols)
    /\ pc' = "rendered"
    /\ UNCHANGED <<opt, term_size, source, input, pos, last_read, history,
                   display_spaces, lines_printed_this_space, changed_space, l,
                   idx, cursor, writes>>

\* the rendered line is given to the renderer again
RenderAgain ==
    /\ pc = "rendered"
    /\ l' = print_string
    /\ print_string' = render(print_string, term_size.cols)
    /\ pc' = "rendered again"
    /\ UNCHANGED <<opt, term_size, source, input, pos, last_read, history,
                   display_spaces, lines_printed_this_space, changed_space,
                   idx, cursor, writes>>

NextRender ==
    \/ RenderLine
    \/ RenderAgain

SpecRender == InitRender /\ [][NextRender]_vars

----------------------------------------------------------------------------
(* The partition alone, lines 162-180, over many terminal heights and counts *)

InitPartition ==
    \E rows \in (RowsReserved + 1)..MaxPartRows, n \in 1..MaxPartSpaces :
        Start([restart_on_find |-> FALSE, history_lines |-> 0,
               clear_on_restart |-> FALSE, regexes |-> Regexes(n)],
              [rows |-> rows, cols |-> 8], "stdin", <<>>)

NextPartition == Startup

SpecPartition == InitPartition /\ [][NextPartition]_vars

----------------------------------------------------------------------------
(* Vocabulary of the properties *)

NSpaces == Len(opt.regexes)

RowsToUse == term_size.rows - RowsReserved

Printing(i) == display_spaces[i].state = "Printing"

InRegion(i, r) ==
    /\ display_spaces[i].start <= r
    /\ r < display_spaces[i].start + display_spaces[i].rows

RECURSIVE SumRows(_, _)
SumRows(spaces, i) == IF i = 0 THEN 0 ELSE spaces[i].rows + SumRows(spaces, i - 1)

IsText(w) == w.kind \in {"header", "history", "line"}

\* the texts written as kind k during the current line, in order
Written(k) ==
    LET sel == SelectSeq(writes, LAMBDA w : w.kind = k)
    IN  [j \in 1..Len(sel) |-> sel[j].text]

\* the first k lines of the input file as the renderer leaves them
Rendered(k) == [j \in 1..k |-> render(input[j], term_size.cols)]

Blanks(n) == [k \in 1..n |-> <<NL>>]

LineDone == pc = "read" /\ pos > 0

----------------------------------------------------------------------------
(* C1: after the per-line dispatch of each input line has completed, at    *)
(* most one Space is in state Printing.                                    *)
AtMostOnePrinting ==
    LineDone => Cardinality({i \in 1..Len(display_spaces) : Printing(i)}) <= 1

(* C2: every header, replayed history line and ordinary line written for a *)
(* Space lands on a row of that Space's own region:                        *)
(* start <= row < start + rows.                                            *)
RegionConfinement ==
    \A k \in 1..Len(writes) :
        IsText(writes[k]) => InRegion(writes[k].space, writes[k].row)

(* C3: at every point of a run the count of rows written since the last    *)
(* activation is between 0 and the row count of every Space (all Spaces    *)
(* the counter can belong to).                                             *)
RowBudget ==
    \A i \in 1..Len(display_spaces) :
        /\ 0 <= lines_printed_this_space
        /\ lines_printed_this_space <= display_spaces[i].rows

(* C4 as stated: for 1 <= N <= R the row counts sum to exactly R, every    *)
(* Space but the last has floor(R/N) rows and the last one has             *)
(* floor(R/N) + R mod N.                                                   *)
PartitionCoversAllRows ==
    (pc = "read" /\ NSpaces <= RowsToUse) =>
        /\ SumRows(display_spaces, NSpaces) = RowsToUse
        /\ \A i \in 1..(NSpaces - 1) :
               display_spaces[i].rows = RowsToUse \div NSpaces
        /\ display_spaces[NSpaces].rows =
               (RowsToUse \div NSpaces) + (RowsToUse % NSpaces)

(* C4 as amended: for 1 <= N <= R every Space, the last one included, has  *)
(* floor(R/N) rows; the row counts sum to R - (R mod N), and the usable    *)
(* rows outside every region are exactly the last R mod N ones.            *)
PartitionEqualShares ==
    (pc = "read" /\ NSpaces <= RowsToUse) =>
        /\ \A i \in 1..NSpaces : display_spaces[i].rows = RowsToUse \div NSpaces
        /\ SumRows(display_spaces, NSpaces) = RowsToUse - (RowsToUse % NSpaces)
        /\ {r \in 0..(RowsToUse - 1) : \A i \in 1..NSpaces : ~InRegion(i, r)}
               = (RowsToUse - (RowsToUse % NSpaces))..(RowsToUse - 1)

PartitionEqualSharesWitness ==
    /\ pc = "read"
    /\ NSpaces >= 2
    /\ NSpaces <= RowsToUse
    /\ RowsToUse % NSpaces >= 2

(* C5: for 1 <= N <= R the regions are contiguous from row 0 (each Space   *)
(* starts where the one before ends), have at least one row each, do not   *)
(* overlap, and follow the order of the configured trigger list.           *)
PartitionShape ==
    (pc = "read" /\ NSpaces <= RowsToUse) =>
        /\ Len(display_spaces) = NSpaces
        /\ display_spaces[1].start = 0
        /\ \A i \in 1..(NSpaces - 1) :
               display_spaces[i + 1].start =
                   display_spaces[i].start + display_spaces[i].rows
        /\ \A i \in 1..NSpaces :
               /\ display_spaces[i].rows >= 1
               /\ display_spaces[i].regex = opt.regexes[i]
        /\ \A i, j \in 1..NSpaces :
               i < j =>
                   /\ display_spaces[i].start < display_spaces[j].start
                   /\ \A r \in 0..(term_size.rows - 1) :
                          ~(InRegion(i, r) /\ InRegion(j, r))

PartitionShapeWitness ==
    /\ pc = "read"
    /\ NSpaces >= 3
    /\ NSpaces <= RowsToUse
    /\ RowsToUse % NSpaces /= 0

(* C6: the rendered line is the raw line unchanged when its character      *)
(* count without the terminator is < cols, and otherwise the first         *)
(* cols - 1 characters and one terminator; its visible character count is  *)
(* always < cols.                                                          *)
TruncationLaw ==
    pc \in {"rendered", "rendered again"} =>
        /\ IF Visible(l) < term_size.cols
           THEN print_string = l
           ELSE print_string = SubSeq(l, 1, term_size.cols - 1) \o <<NL>>
        /\ Visible(print_string) < term_size.cols

TruncationLawWitness ==
    /\ pc = "rendered"
    /\ Visible(l) >= term_size.cols
    /\ term_size.cols >= 2
    /\ print_string /= l

(* C7: rendering an already rendered line again with the same cols gives   *)
(* the same line.                                                          *)
RenderIdempotent ==
    pc = "rendered again" => print_string = l

RenderIdempotentWitness ==
    /\ pc = "rendered again"
    /\ term_size.cols >= 2
    /\ Len(l) = term_size.cols
    /\ print_string = l

(* C8: the history buffer never holds more than history_lines entries, and *)
(* with history_lines = 0 it stays empty and no line is replayed.          *)
HistoryBound ==
    /\ Len(history) <= opt.history_lines
    /\ opt.history_lines = 0 =>
           /\ history = <<>>
           /\ Written("history") = <<>>

HistoryBoundWitness ==
    /\ pc = "read"
    /\ opt.history_lines > 0
    /\ pos > opt.history_lines
    /\ Len(history) = opt.history_lines
    /\ history[1] /= <<NL>>

(* C9 as stated: between input lines the history buffer holds exactly the  *)
(* min(k, history_lines) most recent rendered input lines in arrival       *)
(* order, k being the number of lines read.                                *)
HistoryIsRecentInput ==
    pc \in {"read", "done"} =>
        history = LastN(Rendered(pos), Min(pos, opt.history_lines))

(* C9 as amended: between input lines the history buffer holds exactly     *)
(* history_lines entries: the min(k, history_lines) most recent rendered   *)
(* input lines in arrival order, preceded by history_lines - k blank lines *)
(* while k < history_lines; an activation replays these entries, the blank *)
(* ones included, oldest first.                                            *)
HistoryIsBlanksThenRecentInput ==
    /\ pc \in {"read", "done"} =>
           history = LastN(Blanks(opt.history_lines) \o Rendered(pos),
                           opt.history_lines)
    /\ (pc = "history" /\ changed_space) =>
           Written("history") =
               LastN(Blanks(opt.history_lines) \o Rendered(pos - 1),
                     opt.history_lines)

HistoryIsBlanksThenRecentInputWitness ==
    /\ pc = "history"
    /\ changed_space
    /\ pos >= 2
    /\ pos <= opt.history_lines
    /\ Len(Written("history")) = opt.history_lines

----------------------------------------------------------------------------
(* The scenario of C10: one Space of two rows with the trigger MATCH, no   *)
(* history, no restart, a terminal wide enough to show the lines whole,    *)
(* and the file a, MATCH, b, c.                                            *)

ScenarioFile ==
    << <<"a", NL>>, MATCH \o <<NL>>, <<"b", NL>>, <<"c", NL>> >>

ScenarioNoHistoryCase ==
    /\ source = "file"
    /\ input = ScenarioFile
    /\ opt.regexes = <<MATCH>>
    /\ opt.history_lines = 0
    /\ ~opt.restart_on_find
    /\ RowsToUse = 2
    /\ term_size.cols = 8

HeaderWrite(i) ==
    [space |-> i, kind |-> "header", row |-> display_spaces[i].start,
     text |-> display_spaces[i].header, cleared |-> FALSE]

LineWrite(i, r, text) ==
    [space |-> i, kind |-> "line", row |-> r, text |-> text, cleared |-> TRUE]

\* what the scenario expects up to and including line 2
ScenarioActivation ==
    /\ (pos = 0 /\ pc = "read") =>
           /\ display_spaces[1].rows = 2
           /\ writes = <<HeaderWrite(1)>>
    /\ (pos = 1 /\ pc = "read") =>
           /\ writes = <<>>
           /\ ~Printing(1)
    /\ (pos = 2 /\ pc = "read") =>
           /\ writes = <<HeaderWrite(1), LineWrite(1, 1, MATCH \o <<NL>>)>>
           /\ Printing(1)

(* C10 as stated: the header is printed at startup; line 2 activates the   *)
(* Space and prints header and MATCH; line 3 (b) is printed on the second  *)
(* row and the Space returns to Finding; line 4 (c) prints nothing.        *)
ScenarioNoHistory ==
    ScenarioNoHistoryCase =>
        /\ ScenarioActivation
        /\ (pos = 3 /\ pc = "read") =>
               /\ writes = <<LineWrite(1, 1, <<"b", NL>>)>>
               /\ ~Printing(1)
        /\ (pos = 4 /\ pc = "read") =>
               /\ writes = <<>>
               /\ ~Printing(1)

(* C10 as amended: the header is printed at startup; line 2 activates the  *)
(* Space and prints the header on row 0 and MATCH on row 1, which uses     *)
(* both rows (2 of 2) and leaves the Space Printing; line 3 (b) prints     *)
(* nothing and returns the Space to Finding; line 4 (c) prints nothing.    *)
ScenarioNoHistoryAmended ==
    ScenarioNoHistoryCase =>
        /\ ScenarioActivation
        /\ (pos = 2 /\ pc = "read") => lines_printed_this_space = 2
        /\ (pos = 3 /\ pc = "read") =>
               /\ writes = <<>>
               /\ ~Printing(1)
        /\ (pos = 4 /\ pc = "read") =>
               /\ writes = <<>>
               /\ ~Printing(1)

ScenarioNoHistoryWitness ==
    /\ ScenarioNoHistoryCase
    /\ pos = 4
    /\ pc = "done"
    /\ writes = <<>>

----------------------------------------------------------------------------
(* Activations as the terminal sees them *)

Dispatching == pc \in {"spaces", "history"}

\* the write at position k of the current line's writes is the header of an
\* activation
IsActivation(k) == writes[k].kind = "header"

\* room is left for the triggering line after the header and the replay
RoomAfterReplay(i) == 1 + Len(history) < display_spaces[i].rows

(* C11: the rows emitted for an activation are, in this order, the Space's *)
(* header, every line of the history as it was before the triggering line  *)
(* (oldest first), and then the triggering line itself exactly when rows   *)
(* are left; no other history line is written.                             *)
ReplayOrder ==
    Dispatching =>
        /\ \A k \in 1..Len(writes) :
               IsActivation(k) =>
                   LET i == writes[k].space
                       H == Len(history)
                   IN  /\ writes[k] = [space |-> i, kind |-> "header",
                                       row |-> display_spaces[i].start,
                                       text |-> display_spaces[i].header,
                                       cleared |-> FALSE]
                       /\ Len(writes) >= k + H
                       /\ \A j \in 1..H :
                              /\ writes[k + j].kind = "history"
                              /\ writes[k + j].space = i
                              /\ writes[k + j].text = history[j]
                       /\ IF RoomAfterReplay(i)
                          THEN /\ Len(writes) >= k + H + 1
                               /\ writes[k + H + 1].kind = "line"
                               /\ writes[k + H + 1].space = i
                               /\ writes[k + H + 1].text = print_string
                          ELSE \/ Len(writes) = k + H
                               \/ writes[k + H + 1].space /= i
        /\ Len(Written("history")) = Len(history) * Len(Written("header"))

\* history_lines = 2, two lines that arrived, then a matching line in a Space
\* with room for it
ReplayOrderWitness ==
    /\ pc = "history"
    /\ opt.history_lines = 2
    /\ history = << <<"a", NL>>, <<"b", NL>> >>
    /\ l = MATCH \o <<NL>>
    /\ display_spaces[1].rows = 4
    /\ Len(writes) = 4
    /\ IsActivation(1)
    /\ writes[4].text = MATCH \o <<NL>>

----------------------------------------------------------------------------
(* Files of matching and non-matching lines for one Space, every option *)

MaxScenarioTermRows == 6
MaxScenarioFile == 4

ScenarioLines ==
    { MATCH \o <<NL>>,
      <<"x", NL>> }

ScenarioFiles == UNION { [1..k -> ScenarioLines] : k \in 0..MaxScenarioFile }

InitScenario ==
    \E rows \in (RowsReserved + 2)..MaxScenarioTermRows, cols \in Cols,
       h \in 0..MaxHistory, r \in BOOLEAN, c \in BOOLEAN, f \in ScenarioFiles :
        Start([restart_on_find |-> r, history_lines |-> h,
               clear_on_restart |-> c, regexes |-> Regexes(1)],
              [rows |-> rows, cols |-> cols], "file", f)

SpecScenario == InitScenario /\ [][NextFile]_vars

\* the header, history and line writes of the current line, region clears left out
TextWrites == SelectSeq(writes, IsText)

RestartFile ==
    << MATCH \o <<NL>>, <<"x", NL>>, MATCH \o <<NL>> >>

RestartCase ==
    /\ source = "file"
    /\ input = RestartFile
    /\ opt.regexes = <<MATCH>>
    /\ opt.restart_on_find
    /\ opt.history_lines = 0
    /\ RowsToUse = 3
    /\ term_size.cols = 8

(* C12: with restart_on_find set, a line matching the Space's trigger      *)
(* activates the Space whatever its state: the header is written at        *)
(* start_row, the history is replayed, and the count of rows written       *)
(* restarts at header + history (plus the line when rows are left). With   *)
(* MATCH, x, MATCH and three rows the Space is Printing after x and the    *)
(* second MATCH lands on the row under the header.                         *)
RestartOnFind ==
    /\ (opt.restart_on_find /\ pc = "read" /\ pos > 0
            /\ is_match(opt.regexes[1], input[pos])) =>
           LET H == opt.history_lines
               room == 1 + H < display_spaces[1].rows
               n == 1 + H + (IF room THEN 1 ELSE 0)
           IN  /\ Len(TextWrites) = n
               /\ TextWrites[1] = HeaderWrite(1)
               /\ Written("history") = LastN(Blanks(H) \o Rendered(pos - 1), H)
               /\ room => TextWrites[n] =
                              LineWrite(1, display_spaces[1].start + 1 + H,
                                        render(input[pos], term_size.cols))
               /\ lines_printed_this_space = n
    /\ RestartCase =>
           /\ (pos = 2 /\ pc = "read") =>
                  /\ Printing(1)
                  /\ lines_printed_this_space = 3
                  /\ TextWrites = <<LineWrite(1, 2, <<"x", NL>>)>>
           /\ (pos = 3 /\ pc = "read") =>
                  /\ TextWrites = <<HeaderWrite(1), LineWrite(1, 1, MATCH \o <<NL>>)>>
                  /\ lines_printed_this_space = 2

RestartOnFindWitness ==
    /\ RestartCase
    /\ pos = 3
    /\ pc = "read"
    /\ Printing(1)
    /\ TextWrites = <<HeaderWrite(1), LineWrite(1, 1, MATCH \o <<NL>>)>>

----------------------------------------------------------------------------
(* C13: a failed read does not end the loop and changes nothing: no        *)
(* Space's state, not the count of rows written, not the history, and      *)
(* nothing is written to the terminal; the engine is where it was,         *)
(* awaiting the next line.                                                 *)
ReadErrorSkips ==
    [][(pc = "read" /\ last_read' = "err") =>
           /\ pc' = "read"
           /\ UNCHANGED <<opt, term_size, source, input, pos, history,
                          display_spaces, lines_printed_this_space,
                          changed_space, l, print_string, idx, cursor, writes>>]_vars

\* a read failed while a Space was Printing, after lines had been read
ReadErrorSkipsWitness ==
    /\ pc = "read"
    /\ last_read = "err"
    /\ pos > 0
    /\ \E i \in 1..Len(display_spaces) :
           Printing(i) /\ lines_printed_this_space < display_spaces[i].rows

----------------------------------------------------------------------------
(* C14: a Space leaves Printing in the very dispatch whose write brings    *)
(* the count of rows written to its row count, so between two input lines  *)
(* no Space is Printing with the count equal to its row count.             *)
RegionFullTransition ==
    LineDone =>
        \A i \in 1..Len(display_spaces) :
            ~(Printing(i) /\ lines_printed_this_space = display_spaces[i].rows)

----------------------------------------------------------------------------
(* C15: without restart_on_find, a line that matches a Space's trigger and *)
(* arrives when the count of rows written has already reached the Space's  *)
(* row count activates the Space (its header is written again) instead of  *)
(* being dropped.                                                          *)
FullRegionRetriggers ==
    [][(/\ pc = "spaces"
        /\ ~opt.restart_on_find
        /\ ~changed_space
        /\ lines_printed_this_space = display_spaces[idx].rows
        /\ is_match(display_spaces[idx].regex, l)) =>
           /\ changed_space'
           /\ display_spaces'[idx].state = "Printing"
               \/ ~RoomAfterReplay(idx)
           /\ \E k \in 1..Len(writes') :
                  /\ writes'[k].kind = "header"
                  /\ writes'[k].space = idx]_vars

----------------------------------------------------------------------------
(* C16: the count of rows written is local to each Space: when one Space   *)
(* activates or writes a line, the count of every other Space that stays   *)
(* Printing (the count that Space's own budget test reads) is unchanged.   *)
CounterIsLocal ==
    [][(pc = "spaces" /\ Len(writes') > Len(writes)) =>
           \A j \in 1..Len(display_spaces) :
               (/\ j /= idx
                /\ Printing(j)
                /\ j < idx \/ ~changed_space') =>
                   lines_printed_this_space' = lines_printed_this_space]_vars

----------------------------------------------------------------------------
----------------------------------------------------------------------------
(* C18: a Space activates (writes its header) only on a line that matches  *)
(* its trigger, and only if it is Finding or restart_on_find is set. With  *)
(* restart_on_find off, a Printing Space with room left treats a matching  *)
(* line as an ordinary line: the only write is that line on the Space's    *)
(* next row, the count of rows grows by one and the Space stays Printing.  *)
Activated ==
    \E k \in (Len(writes) + 1)..Len(writes') :
        writes'[k].kind \in {"header", "history"}

EligibilityRule ==
    [][pc = "spaces" =>
           /\ Activated =>
                  /\ is_match(display_spaces[idx].regex, l)
                  /\ \/ opt.restart_on_find
                     \/ force_finding(changed_space,
                                      display_spaces[idx].state) = "Finding"
           /\ (/\ ~opt.restart_on_find
               /\ ~changed_space
               /\ Printing(idx)
               /\ lines_printed_this_space < display_spaces[idx].rows
               /\ is_match(display_spaces[idx].regex, l)) =>
                  /\ writes' = Append(writes,
                         LineWrite(idx,
                                   display_spaces[idx].start
                                       + lines_printed_this_space,
                                   print_string))
                  /\ lines_printed_this_space' = lines_printed_this_space + 1
                  /\ display_spaces'[idx].state = "Printing"]_vars

----------------------------------------------------------------------------
(* C19: the history has a single writer. While the Spaces are evaluated    *)
(* for a line the history does not change, and every replay written in     *)
(* that pass is the same snapshot of it; the dispatch of a line ends with  *)
(* one step that appends the rendered line once (the oldest entry falling  *)
(* out at capacity), whether or not a Space matched; reading changes       *)
(* nothing.                                                                *)
IsHistoryWrite(w) == w.kind = "history"

Texts(ws) == [k \in 1..Len(ws) |-> ws[k].text]

SingleWriterHistory ==
    [][/\ pc = "spaces" =>
              /\ history' = history
              /\ pc' \in {"spaces", "history"}
              /\ LET new == SubSeq(writes', Len(writes) + 1, Len(writes'))
                     replayed == Texts(SelectSeq(new, IsHistoryWrite))
                 IN  replayed = <<>> \/ replayed = history
       /\ pc = "history" =>
              /\ history' = LastN(Append(history, print_string),
                                  opt.history_lines)
              /\ pc' = "read"
       /\ pc = "read" =>
              /\ history' = history
              /\ pc' \in {"read", "spaces", "done"}]_vars

\* two Spaces have activated on one line and replayed the same history, and
\* the line has then been pushed
SingleWriterHistoryWitness ==
    /\ pc = "read"
    /\ opt.history_lines > 0
    /\ history[Len(history)] /= <<NL>>
    /\ \E j, k \in 1..Len(writes) :
           /\ writes[j].kind = "history" /\ writes[j].space = 1
           /\ writes[k].kind = "history" /\ writes[k].space = 2
           /\ writes[j].text = writes[k].text
           /\ writes[j].text /= history[Len(history)]

----------------------------------------------------------------------------
(* C20: startup fills the history with history_lines blank lines and from  *)
(* then on it always holds exactly history_lines entries; so an activation *)
(* writes the header and history_lines replayed lines, 1 + history_lines   *)
(* rows, and then the triggering line exactly when                         *)
(* 1 + history_lines < the row count of the Space.                         *)
Kinds(ws) == [k \in 1..Len(ws) |-> ws[k].kind]

ActivationRows(n, room) ==
    <<"header">> \o [k \in 1..n |-> "history"]
                 \o (IF room THEN <<"line">> ELSE <<>>)

PrefilledHistory ==
    [][/\ pc = "start" => history' = Blanks(opt.history_lines)
       /\ pc /= "start" =>
              /\ Len(history) = opt.history_lines
              /\ Len(history') = opt.history_lines
       /\ (pc = "spaces" /\ Activated) =>
              LET new == SelectSeq(SubSeq(writes', Len(writes) + 1,
                                          Len(writes')), IsText)
                  room == 1 + opt.history_lines < display_spaces[idx].rows
              IN  /\ Kinds(new) = ActivationRows(opt.history_lines, room)
                  /\ room => new[Len(new)].text = print_string]_vars

\* the very first line activates a Space: the replay is all blank lines and
\* the triggering line follows it
PrefilledHistoryWitness ==
    /\ pc = "history"
    /\ pos = 1
    /\ opt.history_lines > 0
    /\ changed_space
    /\ Kinds(TextWrites) = ActivationRows(opt.history_lines, TRUE)
    /\ \A k \in 1..opt.history_lines : TextWrites[k + 1].text = <<NL>>
    /\ TextWrites[Len(TextWrites)].text = print_string

====
